---- MODULE Spec2Model ----
(***************************************************************************)
(* Model of public_data_report/hardware_report/hardware_report.py:         *)
(* get_os_arch, get_gpu_vendor_name, get_device_family_chipset, to_dict,   *)
(* add_counts, combine, aggregate, collapse_buckets, flatten_aggregates,   *)
(* upload_data_s3 and main, and of get_usage_annotations of                *)
(* public_data_report/annotations/annotations.py.                          *)
(*                                                                         *)
(* Spec calls each function once on inputs drawn from bounded sets;        *)
(* MainSpec runs main, batch by batch, against the table and the bucket.   *)
(*                                                                         *)
(* A Python string is a sequence of tokens (runs of characters); "-" is a  *)
(* token of its own, so that str.split("-", 1) and "+" are computed.  A    *)
(* Python value used as a dict key is [type, repr]: its type and the text  *)
(* str() gives it.  A dict is the sequence of its items in insertion       *)
(* order.                                                                  *)
(***************************************************************************)
EXTENDS Integers, Sequences, FiniteSets, TLC

(* ---------------- bounds ---------------- *)
MaxLen == 3
MaxCount == 2
MaxThreshold == 3

(* ---------------- Python values and dicts ---------------- *)
PyStr(toks) == [type |-> "str", repr |-> toks]
PyInt(toks) == [type |-> "int", repr |-> toks]

\* str(metric), line 338
str(metric) == metric.repr

DASH == "-"
OTHER_KEY == PyStr(<<"Other">>)
ZERO_RES == PyStr(<<"0x0">>)

\* dict.keys() in insertion order
DictKeys(d) == {d[i].k : i \in 1..Len(d)}

DictHas(d, key) == \E i \in 1..Len(d) : d[i].k = key

\* d.get(key, default)
DictGet(d, key, default) ==
    IF DictHas(d, key)
    THEN d[CHOOSE i \in 1..Len(d) : d[i].k = key].v
    ELSE default

\* d[key] = value: a present key keeps its position, a new key is appended
DictSet(d, key, value) ==
    IF DictHas(d, key)
    THEN [i \in 1..Len(d) |-> IF d[i].k = key THEN [k |-> key, v |-> value] ELSE d[i]]
    ELSE Append(d, [k |-> key, v |-> value])

\* a dict as Python compares it (==): the order of the items does not count
DictAsMap(d) == [key \in DictKeys(d) |-> DictGet(d, key, 0)]

(* ---------------- collapse_buckets ---------------- *)
\* index of the first "-" of a string, 0 if there is none
FirstDash(toks) ==
    IF \E i \in 1..Len(toks) : toks[i] = DASH
    THEN CHOOSE i \in 1..Len(toks) :
            /\ toks[i] = DASH
            /\ \A j \in 1..(i - 1) : toks[j] # DASH
    ELSE 0

\* k.split("-", 1) gives two parts exactly when k holds a "-" (line 314)
SplitOk(key) == FirstDash(key.repr) > 0

\* [os, ver] = k.split("-", 1); generic_os_key = os + "-" + "Other"
GenericOsKeyLastDash(key) ==
    LET toks == key.repr
        i == CHOOSE j \in 1..Len(toks) :
                /\ toks[j] = DASH
                /\ \A l \in (j + 1)..Len(toks) : toks[l] # DASH
    IN PyStr(SubSeq(toks, 1, i - 1) \o <<DASH>> \o <<"Other">>)

GenericOsKey(key) ==
    LET toks == key.repr
        os == SubSeq(toks, 1, FirstDash(toks) - 1)
    IN PyStr(os \o <<DASH>> \o <<"Other">>)

FirstPassStepNoZeroRes(dimension, acc, k, v, count_threshold) ==
    IF acc.err # "none" THEN acc
    ELSE IF v < count_threshold
    THEN IF dimension = "os"
         THEN IF ~SplitOk(k)
              THEN [acc EXCEPT !.err = "ValueError"]
              ELSE [acc EXCEPT !.d = DictSet(acc.d, GenericOsKey(k),
                                             DictGet(acc.d, GenericOsKey(k), 0) + v)]
         ELSE [acc EXCEPT !.d = DictSet(acc.d, OTHER_KEY, DictGet(acc.d, OTHER_KEY, 0) + v)]
    ELSE [acc EXCEPT !.d = DictSet(acc.d, k, v)]

\* one iteration of the loop of lines 308-322 on the item (k, v);
\* acc is [err, d]: the exception raised so far and collapsed_counts
FirstPassStep(dimension, acc, k, v, count_threshold) ==
    IF acc.err # "none" THEN acc
    ELSE IF dimension = "resolution" /\ k = ZERO_RES
    THEN [acc EXCEPT !.d = DictSet(acc.d, OTHER_KEY, DictGet(acc.d, OTHER_KEY, 0) + v)]
    ELSE IF v < count_threshold
    THEN IF dimension = "os"
         THEN IF ~SplitOk(k)
              THEN [acc EXCEPT !.err = "ValueError"]
              ELSE [acc EXCEPT !.d = DictSet(acc.d, GenericOsKey(k),
                                             DictGet(acc.d, GenericOsKey(k), 0) + v)]
         ELSE [acc EXCEPT !.d = DictSet(acc.d, OTHER_KEY, DictGet(acc.d, OTHER_KEY, 0) + v)]
    ELSE [acc EXCEPT !.d = DictSet(acc.d, k, v)]

RECURSIVE FirstPassFrom(_, _, _, _)
FirstPassFrom(dimension, counts, count_threshold, acc) ==
    IF counts = <<>> THEN acc
    ELSE FirstPassFrom(dimension, Tail(counts), count_threshold,
             FirstPassStep(dimension, acc, Head(counts).k, Head(counts).v, count_threshold))

\* lines 307-322: collapsed_counts of one dimension
FirstPass(dimension, counts, count_threshold) ==
    FirstPassFrom(dimension, counts, count_threshold, [err |-> "none", d |-> <<>>])

\* one iteration of the loop of lines 327-331
SecondPassStep(final_collapsed, k, v, count_threshold) ==
    IF v < count_threshold
    THEN DictSet(final_collapsed, OTHER_KEY, DictGet(final_collapsed, OTHER_KEY, 0) + v)
    ELSE DictSet(final_collapsed, k, v)

RECURSIVE SecondPassFrom(_, _, _)
SecondPassFrom(collapsed_counts, count_threshold, final_collapsed) ==
    IF collapsed_counts = <<>> THEN final_collapsed
    ELSE SecondPassFrom(Tail(collapsed_counts), count_threshold,
             SecondPassStep(final_collapsed, Head(collapsed_counts).k,
                            Head(collapsed_counts).v, count_threshold))

SecondPassNoRescan(collapsed_counts, count_threshold) == collapsed_counts

\* lines 326-332: final_collapsed of the os dimension
SecondPass(collapsed_counts, count_threshold) ==
    SecondPassFrom(collapsed_counts, count_threshold, <<>>)

\* lines 306-333 for one dimension: [err, first, d], d being
\* collapsed_groups[dimension] and first the dict the first loop built
CollapseDimension(dimension, counts, count_threshold) ==
    LET first == FirstPass(dimension, counts, count_threshold)
    IN IF first.err # "none"
       THEN [err |-> first.err, first |-> <<>>, d |-> <<>>]
       ELSE [err |-> "none", first |-> first.d,
             d |-> IF dimension = "os"
                   THEN SecondPass(first.d, count_threshold)
                   ELSE first.d]

\* count / float(sample_count), kept as the exact fraction
Ratio(count, sample_count) == [num |-> count, den |-> sample_count]

\* lines 337-339: {str(metric): count / float(sample_count) for ...};
\* a later item of the same str() replaces the earlier one
RECURSIVE RatiosFrom(_, _, _)
RatiosFrom(counts, sample_count, acc) ==
    IF counts = <<>> THEN acc
    ELSE RatiosFrom(Tail(counts), sample_count,
             DictSet(acc, str(Head(counts).k), Ratio(Head(counts).v, sample_count)))

DimensionRatios(counts, sample_count) == RatiosFrom(counts, sample_count, <<>>)

\* lines 303-341 over the items of aggregated_data, in order:
\* [err, groups, ratios]; groups is collapsed_groups with the first-pass dict
RECURSIVE CollapseGroupsFrom(_, _, _)
CollapseGroupsFrom(aggregated_data, count_threshold, acc) ==
    IF aggregated_data = <<>> \/ acc.err # "none" THEN acc
    ELSE LET item == Head(aggregated_data)
             c == CollapseDimension(item.k, item.v, count_threshold)
         IN CollapseGroupsFrom(Tail(aggregated_data), count_threshold,
                IF c.err # "none"
                THEN [err |-> c.err, groups |-> <<>>]
                ELSE [err |-> "none",
                      groups |-> DictSet(acc.groups, item.k, [first |-> c.first, d |-> c.d])])

collapse_buckets(aggregated_data, count_threshold, sample_count) ==
    LET g == CollapseGroupsFrom(aggregated_data, count_threshold,
                                [err |-> "none", groups |-> <<>>])
        nonempty == \E i \in 1..Len(g.groups) : g.groups[i].v.d # <<>>
    IN IF g.err # "none"
       THEN [err |-> g.err, groups |-> <<>>, ratios |-> <<>>]
       ELSE IF nonempty /\ sample_count = 0
       THEN [err |-> "ZeroDivisionError", groups |-> <<>>, ratios |-> <<>>]
       ELSE [err |-> "none", groups |-> g.groups,
             ratios |-> [i \in 1..Len(g.groups) |->
                            [k |-> g.groups[i].k,
                             v |-> DimensionRatios(g.groups[i].v.d, sample_count)]]]

(* ---------------- get_os_arch ---------------- *)
X86 == <<"x86">>
X86_64 == <<"x86", DASH, "64">>
WINDOWS_NT == <<"Windows_NT">>

get_os_arch_any_wow64(b_arch, os_name, is_wow64) ==
    IF b_arch = X86_64 THEN X86_64
    ELSE IF is_wow64 THEN X86_64
    ELSE X86

\* lines 137-161
get_os_arch(b_arch, os_name, is_wow64) ==
    LET is_64bit_browser == (b_arch = X86_64)
        is_windows == (os_name = WINDOWS_NT)
    IN IF is_64bit_browser THEN X86_64
       ELSE IF is_windows /\ is_wow64 THEN X86_64
       ELSE X86

(* ---------------- get_device_family_chipset ---------------- *)
\* "-".join([family, chipset])
JoinDash(pair) == pair[1] \o <<DASH>> \o pair[2]

\* lines 192-209; device_map is a function vendor id -> device id -> <<family, chipset>>
get_device_family_chipset(vendor_id, device_id, device_map) ==
    IF vendor_id \notin DOMAIN device_map THEN <<"Unknown">>
    ELSE IF device_id \notin DOMAIN device_map[vendor_id] THEN <<"Unknown">>
    ELSE JoinDash(device_map[vendor_id][device_id])

(* ---------------- flatten_aggregates, upload_data_s3 ---------------- *)
\* lines 376-388
map_fields ==
    <<"arch", "cpu_cores", "cpu_vendor", "cpu_speed", "gfx0_vendor_name", "gfx0_model",
      "resolution", "memory_gb", "os", "os_arch", "has_flash">>

keys_translation_os_arch_swapped ==
    [metric \in {map_fields[i] : i \in 1..Len(map_fields)} |->
        CASE metric = "arch" -> "browserArch_"
          [] metric = "cpu_cores" -> "cpuCores_"
          [] metric = "cpu_vendor" -> "cpuVendor_"
          [] metric = "cpu_speed" -> "cpuSpeed_"
          [] metric = "gfx0_vendor_name" -> "gpuVendor_"
          [] metric = "gfx0_model" -> "gpuModel_"
          [] metric = "resolution" -> "resolution_"
          [] metric = "memory_gb" -> "ram_"
          [] metric = "os" -> "osArch_"
          [] metric = "os_arch" -> "osName_"
          [] metric = "has_flash" -> "hasFlash_"]

\* lines 345-358
keys_translation ==
    [metric \in {"arch", "cpu_cores", "cpu_vendor", "cpu_speed", "gfx0_vendor_name",
                 "gfx0_model", "resolution", "memory_gb", "os", "os_arch", "has_flash"} |->
        CASE metric = "arch" -> "browserArch_"
          [] metric = "cpu_cores" -> "cpuCores_"
          [] metric = "cpu_vendor" -> "cpuVendor_"
          [] metric = "cpu_speed" -> "cpuSpeed_"
          [] metric = "gfx0_vendor_name" -> "gpuVendor_"
          [] metric = "gfx0_model" -> "gpuModel_"
          [] metric = "resolution" -> "resolution_"
          [] metric = "memory_gb" -> "ram_"
          [] metric = "os" -> "osName_"
          [] metric = "os_arch" -> "osArch_"
          [] metric = "has_flash" -> "hasFlash_"]

\* the characters of a date string, in code point order ("-" is below "0")
Chars == <<DASH, "0", "1", "2", "3", "4", "5", "6", "7", "8", "9">>

CharOrd(c) == CHOOSE i \in 1..Len(Chars) : Chars[i] = c

Digit(n) == Chars[n + 2]

\* a date column <<year, month, day>> as Spark's toJSON writes it: yyyy-MM-dd
IsoDate(d) ==
    <<Digit(d[1] \div 1000), Digit((d[1] \div 100) % 10), Digit((d[1] \div 10) % 10),
      Digit(d[1] % 10), DASH,
      Digit(d[2] \div 10), Digit(d[2] % 10), DASH,
      Digit(d[3] \div 10), Digit(d[3] % 10)>>

\* a < b for Python strings (by code point, a proper prefix is smaller)
RECURSIVE StrLess(_, _)
StrLess(a, b) ==
    IF b = <<>> THEN FALSE
    ELSE IF a = <<>> THEN TRUE
    ELSE IF Head(a) = Head(b) THEN StrLess(Tail(a), Tail(b))
    ELSE CharOrd(Head(a)) < CharOrd(Head(b))

\* MAP_FROM_ENTRIES(field.key_value) as json.loads reads it back (line 391)
MapFromEntries(key_value) ==
    [i \in 1..Len(key_value) |-> [k |-> key_value[i].key, v |-> key_value[i].value]]

\* lines 389-392: one JSON document per row, "date_from AS date" first
SelectRow(row) ==
    <<[k |-> "date", v |-> IsoDate(row.date_from)]>>
    \o [i \in 1..Len(map_fields) |->
          [k |-> map_fields[i], v |-> MapFromEntries(row[map_fields[i]])]]

\* lines 364-365 for one metric
RECURSIVE FlattenValues(_, _, _)
FlattenValues(prefix, values, flattened) ==
    IF values = <<>> THEN flattened
    ELSE FlattenValues(prefix, Tail(values),
             DictSet(flattened, <<prefix>> \o Head(values).k, Head(values).v))

\* lines 362-365 over the items of one document
RECURSIVE FlattenMetrics(_, _)
FlattenMetrics(items, flattened) ==
    IF items = <<>> THEN flattened
    ELSE FlattenMetrics(Tail(items),
             IF Head(items).k \in DOMAIN keys_translation
             THEN FlattenValues(keys_translation[Head(items).k], Head(items).v, flattened)
             ELSE flattened)

\* lines 361-366 for one document
FlattenOne(aggregate) ==
    DictSet(FlattenMetrics(aggregate, <<>>), <<"date">>, DictGet(aggregate, "date", <<>>))

\* lines 344-368
flatten_aggregates(aggregates) ==
    [i \in 1..Len(aggregates) |-> FlattenOne(aggregates[i])]

\* sorted(..., reverse=True) places an item before the first item of a
\* strictly smaller key: the sort is stable
RECURSIVE InsertDesc(_, _)
InsertDesc(sorted_list, a) ==
    IF sorted_list = <<>> THEN <<a>>
    ELSE IF StrLess(DictGet(Head(sorted_list), <<"date">>, <<>>), DictGet(a, <<"date">>, <<>>))
    THEN <<a>> \o sorted_list
    ELSE <<Head(sorted_list)>> \o InsertDesc(Tail(sorted_list), a)

RECURSIVE SortedFrom(_, _)
SortedFrom(list, acc) ==
    IF list = <<>> THEN acc
    ELSE SortedFrom(Tail(list), InsertDesc(acc, Head(list)))

sorted_by_date_input_order(list) == list

\* lines 394-396: sorted(list, key=lambda a: a["date"], reverse=True)
sorted_by_date(list) == SortedFrom(list, <<>>)

(* ---------------- inputs ---------------- *)
MaxRows == 3

W10 == PyStr(<<"Windows_NT", DASH, "10.0">>)
W62 == PyStr(<<"Windows_NT", DASH, "6.2">>)
WOTHER == PyStr(<<"Windows_NT", DASH, "Other">>)
LINUX54 == PyStr(<<"Linux", DASH, "5", DASH, "4">>)

Dimensions == {"os", "resolution", "cpu_speed", "cpu_cores"}

\* the values a dimension's CountTable may hold
KeysOf(dimension) ==
    CASE dimension = "os" -> {W10, W62, WOTHER, LINUX54, OTHER_KEY}
      [] dimension = "resolution" -> {ZERO_RES, PyStr(<<"1920x1080">>), OTHER_KEY}
      [] dimension = "cpu_speed" -> {PyStr(<<"4">>), PyStr(<<"3.6">>), OTHER_KEY}
      [] dimension = "cpu_cores" -> {PyInt(<<"4">>), PyInt(<<"8">>)}

Item(key, value) == [k |-> key, v |-> value]

\* the dicts of at most MaxLen items over the given keys, in every order
Tables(keys) ==
    UNION {{t \in [1..n -> {Item(key, c) : key \in keys, c \in 1..MaxCount}] :
               \A i, j \in 1..n : i # j => t[i].k # t[j].k} : n \in 0..MaxLen}

RECURSIVE SumValues(_)
SumValues(d) == IF d = <<>> THEN 0 ELSE Head(d).v + SumValues(Tail(d))

\* test_collapse_buckets, tests/test_hardware_report.py lines 162-174 (three of its dimensions)
TestAggregated ==
    <<Item("os", <<Item(W10, 95), Item(W62, 5)>>),
      Item("cpu_cores", <<Item(PyInt(<<"4">>), 100)>>),
      Item("cpu_speed", <<Item(PyStr(<<"4">>), 2), Item(PyStr(<<"3.6">>), 48),
                          Item(OTHER_KEY, 50)>>)>>

\* collapse_buckets(aggregated, 10, 100), tests/test_hardware_report.py line 188
TestThreshold == 10

AggregatedInputs ==
    UNION {{<<Item(dimension, t)>> : t \in Tables(KeysOf(dimension))} : dimension \in Dimensions}
    \cup {TestAggregated, <<>>, <<Item("os", <<>>), Item("resolution", <<>>)>>}

Thresholds == (0..MaxThreshold) \cup {TestThreshold}

\* the number of rows of the window (the sum of any dimension's counts), none, or a negative number
SampleCounts(aggregated_data) ==
    {-1, 0} \cup (IF aggregated_data = <<>> THEN {} ELSE {SumValues(aggregated_data[1].v)})

BrowserArchs == {X86, X86_64, <<"aarch64">>}
OsNames == {WINDOWS_NT, <<"Darwin">>, <<"Windows_NT", DASH, "10.0">>}

\* invert_device_map(device_data) of tests/test_hardware_report.py lines 51-52
TestDeviceMap ==
    [vendor \in {"0xfeee"} |->
        [device \in {"0xd1d1", "0xd2d2"} |-> <<<<"family">>, <<"chipset">>>>]]

\* DEVICE_MAP_SAMPLE, tests/test_hardware_report.py lines 5-20
DEVICE_MAP_SAMPLE ==
    [vendor \in {"0x10de"} |->
        [device \in {"0x13c1", "0x13c2", "0x13d7"} |->
            IF device = "0x13d7" THEN <<<<"Maxwell">>, <<"GM204M">>>>
            ELSE <<<<"Maxwell">>, <<"GM204">>>>]]

DeviceMaps == {TestDeviceMap, DEVICE_MAP_SAMPLE, [vendor \in {} |-> <<>>]}
VendorIds == {"0xfeee", "0xfeeb", "0x10de"}
DeviceIds == {"0xd1d1", "0xdeee", "0x13c2", "0x13d7"}

\* report windows [date_from, date_to)
Windows ==
    {[date_from |-> <<2019, 12, 30>>, date_to |-> <<2020, 1, 6>>],
     [date_from |-> <<2020, 1, 6>>, date_to |-> <<2020, 1, 13>>],
     [date_from |-> <<2020, 2, 10>>, date_to |-> <<2020, 2, 17>>],
     [date_from |-> <<2020, 10, 5>>, date_to |-> <<2020, 10, 12>>]}

KV(key, ratio) == [key |-> key, value |-> ratio]

\* the ratio tables a stored row holds: collapsed_expected of
\* tests/test_hardware_report.py lines 175-187, or a row with one resolution only
RowTables ==
    {[arch |-> <<KV(X86_64, Ratio(100, 100))>>,
      cpu_cores |-> <<KV(<<"4">>, Ratio(100, 100))>>,
      cpu_vendor |-> <<KV(<<"GenuineIntel">>, Ratio(100, 100))>>,
      cpu_speed |-> <<KV(<<"3.6">>, Ratio(48, 100)), KV(<<"Other">>, Ratio(52, 100))>>,
      gfx0_vendor_name |-> <<KV(<<"NVIDIA">>, Ratio(60, 100)),
                             KV(<<"Microsoft Basic">>, Ratio(40, 100))>>,
      gfx0_model |-> <<KV(<<"Maxwell", DASH, "GM204">>, Ratio(95, 100)),
                       KV(<<"Other">>, Ratio(5, 100))>>,
      resolution |-> <<KV(<<"1920x1080">>, Ratio(100, 100))>>,
      memory_gb |-> <<KV(<<"14">>, Ratio(50, 100)), KV(<<"17">>, Ratio(50, 100))>>,
      os |-> <<KV(<<"Windows_NT", DASH, "10.0">>, Ratio(95, 100)),
               KV(<<"Other">>, Ratio(5, 100))>>,
      os_arch |-> <<KV(X86_64, Ratio(100, 100))>>,
      has_flash |-> <<KV(<<"Other">>, Ratio(1, 100)), KV(<<"False">>, Ratio(99, 100))>>],
     [arch |-> <<>>, cpu_cores |-> <<>>, cpu_vendor |-> <<>>, cpu_speed |-> <<>>,
      gfx0_vendor_name |-> <<>>, gfx0_model |-> <<>>,
      resolution |-> <<KV(<<"1920x1080">>, Ratio(1, 2))>>,
      memory_gb |-> <<>>, os |-> <<>>, os_arch |-> <<>>, has_flash |-> <<>>]}

\* the rows of the BigQuery table: one ratio table per dimension, date_from, date_to
Rows == {t @@ w : t \in RowTables, w \in Windows}

StoredTables == UNION {[1..n -> Rows] : n \in 0..MaxRows}

S3Paths == {"hwsurvey/"}
S3Buckets == {"telemetry-public-analysis-2"}
Todays == {<<2020, 10, 12>>}

(* ---------------- upload_data_s3 ---------------- *)
\* lines 372-415: what the call reads, computes, writes and uploads
upload_data_s3(hardware_aggregates_df, s3_bucket, s3_path, today) ==
    LET aggregates == [i \in 1..Len(hardware_aggregates_df) |->
                          SelectRow(hardware_aggregates_df[i])]
        flattened_list == flatten_aggregates(aggregates)
        aggregates_flattened == sorted_by_date(flattened_list)
        archived_file_copy == <<"hwsurvey-weekly-">> \o IsoDate(today) \o <<".json">>
    IN [aggregates |-> aggregates,
        flattened_list |-> flattened_list,
        aggregates_flattened |-> aggregates_flattened,
        output_file |-> aggregates_flattened,
        clients |-> 1,
        uploads |-> <<[bucket |-> s3_bucket, key |-> <<s3_path>> \o archived_file_copy,
                       body |-> aggregates_flattened],
                      [bucket |-> s3_bucket, key |-> <<s3_path, "hwsurvey-weekly.json">>,
                       body |-> aggregates_flattened]>>]

\* the keyword a caller may add to the call: none, dryrun=True or dryrun=False
DryrunKeywords == {"absent", "True", "False"}

\* a call of upload_data_s3, whose signature (line 371) is
\* (spark, bq_table_name, s3_bucket, s3_path): a dryrun keyword is a TypeError
\* raised before the body runs
call_upload_data_s3(hardware_aggregates_df, s3_bucket, s3_path, today, dryrun) ==
    IF dryrun # "absent"
    THEN [err |-> "TypeError", aggregates |-> <<>>, flattened_list |-> <<>>,
          aggregates_flattened |-> <<>>, output_file |-> <<>>, clients |-> 0,
          uploads |-> <<>>]
    ELSE upload_data_s3(hardware_aggregates_df, s3_bucket, s3_path, today) @@ [err |-> "none"]

(* ---------------- to_dict, add_counts, combine, aggregate ---------------- *)
MaxDfRows == 2

\* Python's None (a NULL column) where the column holds strings
NONE == "None"

\* a nullable number column: <<>> is None, <<n>> is the number n
NoNumber == <<>>

PyFloat(toks) == [type |-> "float", repr |-> toks]
PyBool(b) == [type |-> "bool", repr |-> IF b THEN <<"True">> ELSE <<"False">>]

\* GPU_VENDOR_MAP, lines 175-188
GPU_VENDOR_MAP ==
    [id \in {"0x1013", "0x1002", "0x8086", "Intel Open Source Technology Center", "0x5333",
             "0x1039", "0x1106", "0x10de", "0x102b", "0x15ad", "0x80ee", "0x1414"} |->
        CASE id = "0x1013" -> <<"Cirrus Logic">>
          [] id = "0x1002" -> <<"AMD">>
          [] id \in {"0x8086", "Intel Open Source Technology Center"} -> <<"Intel">>
          [] id = "0x5333" -> <<"S3 Graphics">>
          [] id = "0x1039" -> <<"SIS">>
          [] id = "0x1106" -> <<"VIA">>
          [] id = "0x10de" -> <<"NVIDIA">>
          [] id = "0x102b" -> <<"Matrox">>
          [] id = "0x15ad" -> <<"VMWare">>
          [] id = "0x80ee" -> <<"Oracle VirtualBox">>
          [] id = "0x1414" -> <<"Microsoft Basic">>]

\* lines 164-189
get_gpu_vendor_name(gpu_vendor_id) ==
    IF gpu_vendor_id \in DOMAIN GPU_VENDOR_MAP THEN GPU_VENDOR_MAP[gpu_vendor_id]
    ELSE <<"Other">>

\* str() of an int below 100
IntRepr(n) == IF n < 10 THEN <<Digit(n)>> ELSE <<Digit(n \div 10), Digit(n % 10)>>

\* round(cpu_speed / 1000.0, 1) for a speed in MHz below 10000 that is not
\* halfway between two tenths, as the float prints
RoundGHz(mhz) ==
    LET tenths == (mhz + 50) \div 100
    IN <<Digit(tenths \div 10), ".", Digit(tenths % 10)>>

\* lines 267-283; the module's DEVICE_MAP is a parameter
to_dict(row, device_map) ==
    LET cpu_speed == IF row.cpu_speed = NoNumber THEN PyInt(<<"1">>)
                     ELSE PyFloat(RoundGHz(row.cpu_speed[1]))
    IN <<Item("os", PyStr(row.os)),
         Item("arch", PyStr(row.browser_arch)),
         Item("cpu_cores", PyInt(IntRepr(row.cpu_cores))),
         Item("cpu_vendor", PyStr(row.cpu_vendor)),
         Item("cpu_speed", cpu_speed),
         Item("resolution", PyStr(row.resolution)),
         Item("memory_gb", PyInt(IntRepr(row.memory_gb))),
         Item("has_flash", PyBool(row.has_flash)),
         Item("os_arch", PyStr(get_os_arch(row.browser_arch, row.os, row.is_wow64))),
         Item("gfx0_vendor_name", PyStr(get_gpu_vendor_name(row.gfx0_vendor_id))),
         Item("gfx0_model",
              PyStr(get_device_family_chipset(row.gfx0_vendor_id, row.gfx0_device_id,
                                              device_map)))>>

\* lines 286-287
add_counts(dict) == [i \in 1..Len(dict) |-> Item(dict[i].k, <<Item(dict[i].v, 1)>>)]

RECURSIVE CombineValuesOverwrite(_, _)
CombineValuesOverwrite(acc_metric, values) ==
    IF values = <<>> THEN acc_metric
    ELSE CombineValuesOverwrite(DictSet(acc_metric, Head(values).k, Head(values).v),
                                Tail(values))

\* lines 293-294
RECURSIVE CombineValues(_, _)
CombineValues(acc_metric, values) ==
    IF values = <<>> THEN acc_metric
    ELSE CombineValues(DictSet(acc_metric, Head(values).k,
                               DictGet(acc_metric, Head(values).k, 0) + Head(values).v),
                       Tail(values))

\* lines 290-296
RECURSIVE combine(_, _)
combine(acc, row) ==
    IF row = <<>> THEN acc
    ELSE combine(DictSet(acc, Head(row).k,
                         CombineValues(DictGet(acc, Head(row).k, <<>>), Head(row).v)),
                 Tail(row))

\* rdd.fold({}, combine) on one partition, and on the partitions' results
RECURSIVE Fold(_, _)
Fold(acc, objs) == IF objs = <<>> THEN acc ELSE Fold(combine(acc, Head(objs)), Tail(objs))

\* lines 299-300; the rows of the dataframe lie in two partitions, the first
\* `split` rows in one and the rest in the other
aggregate(hardware_by_dimensions_df, split, device_map) ==
    LET mapped == [i \in 1..Len(hardware_by_dimensions_df) |->
                      add_counts(to_dict(hardware_by_dimensions_df[i], device_map))]
        vals == <<Fold(<<>>, SubSeq(mapped, 1, split)),
                  Fold(<<>>, SubSeq(mapped, split + 1, Len(mapped)))>>
    IN Fold(<<>>, vals)

\* a row of by_dimensions (lines 93-110): one group of clients of the window
BaseRow ==
    [browser_arch |-> X86, os |-> <<"Windows_NT", DASH, "10.0">>, memory_gb |-> 16,
     is_wow64 |-> TRUE, gfx0_vendor_id |-> "0x10de", gfx0_device_id |-> "0x13c2",
     resolution |-> <<"1920x1080">>, cpu_cores |-> 4, cpu_vendor |-> <<"GenuineIntel">>,
     cpu_speed |-> <<3600>>, has_flash |-> FALSE, count |-> 3]

\* groups that differ from BaseRow in some of the grouped columns
DfRows ==
    {BaseRow,
     [BaseRow EXCEPT !.is_wow64 = FALSE, !.cpu_speed = NoNumber, !.gfx0_vendor_id = NONE,
                     !.gfx0_device_id = NONE, !.count = 1],
     [BaseRow EXCEPT !.browser_arch = X86_64, !.is_wow64 = FALSE, !.memory_gb = 8,
                     !.cpu_speed = <<2449>>, !.gfx0_device_id = "0x13d7"],
     [BaseRow EXCEPT !.os = <<"Linux", DASH, "5.4">>, !.is_wow64 = FALSE,
                     !.resolution = <<"0x0">>, !.gfx0_vendor_id = "0x8086",
                     !.gfx0_device_id = "0x0166", !.has_flash = TRUE, !.count = 1],
     [BaseRow EXCEPT !.os = <<"Darwin", DASH, "19.6.0">>, !.is_wow64 = TRUE,
                     !.browser_arch = <<"aarch64">>, !.cpu_cores = 8,
                     !.cpu_vendor = <<"Other">>, !.count = 2]}

\* the dataframes load_data may return: the GROUP BY makes the rows distinct
Dataframes ==
    UNION {{df \in [1..n -> DfRows] : \A i, j \in 1..n : i # j => df[i] # df[j]} :
              n \in 0..MaxDfRows}

(* ---------------- get_usage_annotations ---------------- *)
MaxCountries == 2

Countries == {"Brazil", "Canada", "France"}

\* DEFAULT_USAGE_ANNOTATIONS, annotations.py lines 21-35, and the list
\* test_default_annotations patches in; an annotation is named by its text
DefaultAnnotationLists ==
    {<<"2017-11-14 FF57, legacy addons disabled", "2019-05-05 data deleted (addons outage)">>,
     <<"abc">>}

\* the lists of distinct countries USER_ACITVITY_COUNTRY_LIST may be
CountryLists ==
    UNION {{l \in [1..n -> Countries] : \A i, j \in 1..n : i # j => l[i] # l[j]} :
              n \in 0..MaxCountries}

\* the annotations a country may have in annotations_webusage.json
FileAnnotationLists == {<<"123">>, <<"123", "456">>, <<>>}

\* annotations_webusage.json as json.loads reads it: a dict country -> list
RECURSIVE FilesOver(_)
FilesOver(countries) ==
    IF countries = {} THEN {<<>>}
    ELSE LET c == CHOOSE x \in countries : TRUE
         IN UNION {{f} \cup {<<[k |-> c, v |-> l]>> \o f : l \in FileAnnotationLists} :
                      f \in FilesOver(countries \ {c})}

UsageStepPrepend(usage_annotations, country, defaults) ==
    DictSet(usage_annotations, country, defaults \o DictGet(usage_annotations, country, <<>>))

\* lines 100-102 for one country
UsageStep(usage_annotations, country, defaults) ==
    LET with_country == IF ~DictHas(usage_annotations, country)
                        THEN DictSet(usage_annotations, country, <<>>)
                        ELSE usage_annotations
    IN DictSet(with_country, country, DictGet(with_country, country, <<>>) \o defaults)

RECURSIVE UsageFrom(_, _, _)
UsageFrom(usage_annotations, country_list, defaults) ==
    IF country_list = <<>> THEN usage_annotations
    ELSE UsageFrom(UsageStep(usage_annotations, Head(country_list), defaults),
                   Tail(country_list), defaults)

\* json.dumps(usage_annotations, indent=2, sort_keys=True): the text is fixed by
\* the mapping, whatever the order of the dict
DumpsSorted(d) == [key \in DictKeys(d) |-> DictGet(d, key, <<>>)]

\* lines 96-104
get_usage_annotations(file, country_list, defaults) ==
    DumpsSorted(UsageFrom(file, country_list, defaults))

(* ---------------- main ---------------- *)
MaxRuns == 2
MaxPastWeeks == 1

IsLeap(y) == (y % 4 = 0 /\ y % 100 # 0) \/ y % 400 = 0

DaysInMonth(y, m) ==
    IF m = 2 THEN (IF IsLeap(y) THEN 29 ELSE 28)
    ELSE IF m \in {4, 6, 9, 11} THEN 30 ELSE 31

\* date + timedelta(days=1), date - timedelta(days=1)
NextDay(d) ==
    IF d[3] < DaysInMonth(d[1], d[2]) THEN <<d[1], d[2], d[3] + 1>>
    ELSE IF d[2] < 12 THEN <<d[1], d[2] + 1, 1>>
    ELSE <<d[1] + 1, 1, 1>>

PrevDay(d) ==
    IF d[3] > 1 THEN <<d[1], d[2], d[3] - 1>>
    ELSE IF d[2] > 1 THEN <<d[1], d[2] - 1, DaysInMonth(d[1], d[2] - 1)>>
    ELSE <<d[1] - 1, 12, 31>>

\* date + timedelta(days=n) for n of either sign
RECURSIVE PlusDays(_, _)
PlusDays(d, n) ==
    IF n = 0 THEN d
    ELSE IF n > 0 THEN PlusDays(NextDay(d), n - 1)
    ELSE PlusDays(PrevDay(d), n + 1)

\* the --date_from a run is started with
StartDates == {<<2020, 1, 13>>}

\* what load_data may return for a window: no row at all, or one group
MainDataframes == {<<>>, <<BaseRow>>}

\* int(sample_count * 0.01), line 460, for a sample_count >= 0
threshold_to_collapse(sample_count) == sample_count \div 100

\* lines 463-470: the row Row(**aggregates) gives the table; a dimension
\* aggregates lacks is a NULL column, which MAP_FROM_ENTRIES and toJSON
\* (lines 390-392) treat as no entry
StoredRow(ratios, batch_date_from, batch_date_to) ==
    [field \in {map_fields[i] : i \in 1..Len(map_fields)} |->
        LET table == DictGet(ratios, field, <<>>)
        IN [i \in 1..Len(table) |-> KV(table[i].k, table[i].v)]]
    @@ [date_from |-> batch_date_from, date_to |-> batch_date_to]

\* lines 447-470 for one batch_number: [err, row, sample_count]
Batch(date_from, batch_number, hardware_by_dimensions_df, split) ==
    LET batch_date_from == PlusDays(date_from, -7 * batch_number)
        batch_date_to == PlusDays(batch_date_from, 7)
        aggregated == aggregate(hardware_by_dimensions_df, split, DEVICE_MAP_SAMPLE)
        sample_count == Len(hardware_by_dimensions_df)
        aggregates == collapse_buckets(aggregated, threshold_to_collapse(sample_count),
                                       sample_count)
    IN [err |-> aggregates.err,
        sample_count |-> sample_count,
        row |-> StoredRow(aggregates.ratios, batch_date_from, batch_date_to)]

\* transfer.upload_file(file, bucket, key), for each upload in order
RECURSIVE StoreUploads(_, _)
StoreUploads(store, uploads) ==
    IF uploads = <<>> THEN store
    ELSE StoreUploads(DictSet(store, Head(uploads).key, Head(uploads).body), Tail(uploads))

(* ---------------- state ---------------- *)
\* op: the function called last; args: its arguments; ret: what it returned or raised;
\* bq_table: the rows of the output BigQuery table; s3_store: the objects of the
\* bucket; run: the position and the log of the current run of main
VARIABLES op, args, ret, bq_table, s3_store, run

vars == <<op, args, ret, bq_table, s3_store, run>>

callvars == <<op, args, ret>>

mainvars == <<bq_table, s3_store, run>>

\* main's position and locals: pc, date_from, past_weeks, batch_number and
\* sample_count (<<>> before a batch has set it); runs counts the calls of main
IdleRun ==
    [pc |-> "idle", runs |-> 0, date_from |-> <<>>, past_weeks |-> 0, batch_number |-> 0,
     sample_count |-> NoNumber]

Init ==
    /\ op = "idle"
    /\ args = <<>>
    /\ ret = <<>>
    /\ bq_table = <<>>
    /\ s3_store = <<>>
    /\ run = IdleRun

CollapseBuckets ==
    /\ op = "idle"
    /\ \E aggregated_data \in AggregatedInputs, count_threshold \in Thresholds :
         \E sample_count \in SampleCounts(aggregated_data) :
            /\ op' = "collapse_buckets"
            /\ args' = [aggregated_data |-> aggregated_data,
                        count_threshold |-> count_threshold,
                        sample_count |-> sample_count]
            /\ ret' = collapse_buckets(aggregated_data, count_threshold, sample_count)
    /\ UNCHANGED mainvars

GetOsArch ==
    /\ op = "idle"
    /\ \E b_arch \in BrowserArchs, os_name \in OsNames, is_wow64 \in BOOLEAN :
            /\ op' = "get_os_arch"
            /\ args' = [browser_arch |-> b_arch, os_name |-> os_name, is_wow64 |-> is_wow64]
            /\ ret' = get_os_arch(b_arch, os_name, is_wow64)
    /\ UNCHANGED mainvars

GetDeviceFamilyChipset ==
    /\ op = "idle"
    /\ \E vendor_id \in VendorIds, device_id \in DeviceIds, device_map \in DeviceMaps :
            /\ op' = "get_device_family_chipset"
            /\ args' = [vendor_id |-> vendor_id, device_id |-> device_id,
                        device_map |-> device_map]
            /\ ret' = get_device_family_chipset(vendor_id, device_id, device_map)
    /\ UNCHANGED mainvars

UploadDataS3 ==
    /\ op = "idle"
    /\ \E hardware_aggregates_df \in StoredTables, s3_bucket \in S3Buckets,
          s3_path \in S3Paths, today \in Todays, dryrun \in DryrunKeywords :
            /\ op' = "upload_data_s3"
            /\ args' = [hardware_aggregates_df |-> hardware_aggregates_df,
                        s3_bucket |-> s3_bucket, s3_path |-> s3_path, today |-> today,
                        dryrun |-> dryrun]
            /\ ret' = call_upload_data_s3(hardware_aggregates_df, s3_bucket, s3_path, today,
                                          dryrun)
    /\ UNCHANGED mainvars

GetUsageAnnotations ==
    /\ op = "idle"
    /\ \E file \in FilesOver(Countries), country_list \in CountryLists,
          defaults \in DefaultAnnotationLists :
            /\ op' = "get_usage_annotations"
            /\ args' = [file |-> file, country_list |-> country_list, defaults |-> defaults]
            /\ ret' = get_usage_annotations(file, country_list, defaults)
    /\ UNCHANGED mainvars

Aggregate ==
    /\ op = "idle"
    /\ \E hardware_by_dimensions_df \in Dataframes :
         \E split \in 0..Len(hardware_by_dimensions_df) :
            /\ op' = "aggregate"
            /\ args' = [hardware_by_dimensions_df |-> hardware_by_dimensions_df,
                        split |-> split]
            /\ ret' = aggregate(hardware_by_dimensions_df, split, DEVICE_MAP_SAMPLE)
    /\ UNCHANGED mainvars

\* lines 437-445: main is called
MainStart ==
    /\ run.pc = "idle"
    /\ run.runs < MaxRuns
    /\ \E date_from \in StartDates, past_weeks \in 0..MaxPastWeeks :
          run' = [pc |-> "batch", runs |-> run.runs + 1, date_from |-> date_from,
                  past_weeks |-> past_weeks, batch_number |-> 0,
                  sample_count |-> NoNumber]
    /\ UNCHANGED <<bq_table, s3_store, callvars>>

\* lines 447-470: one turn of the loop; an exception of collapse_buckets ends main
MainBatch ==
    /\ run.pc = "batch"
    /\ \E hardware_by_dimensions_df \in MainDataframes :
         \E split \in 0..Len(hardware_by_dimensions_df) :
            LET b == Batch(run.date_from, run.batch_number, hardware_by_dimensions_df, split)
            IN IF b.err # "none"
               THEN /\ run' = [run EXCEPT !.pc = "idle", !.sample_count = <<b.sample_count>>]
                    /\ UNCHANGED bq_table
               ELSE /\ bq_table' = Append(bq_table, b.row)
                    /\ run' = [run EXCEPT
                                 !.pc = IF run.batch_number = run.past_weeks
                                        THEN "upload" ELSE "batch",
                                 !.batch_number = run.batch_number + 1,
                                 !.sample_count = <<b.sample_count>>]
    /\ UNCHANGED <<s3_store, callvars>>

\* line 454: load_data raises (the BigQuery job fails) and ends main
MainLoadFails ==
    /\ run.pc = "batch"
    /\ run' = [run EXCEPT !.pc = "idle"]
    /\ UNCHANGED <<bq_table, s3_store, callvars>>

\* lines 472-474: the whole table is published and main returns
MainUpload ==
    /\ run.pc = "upload"
    /\ \E s3_bucket \in S3Buckets, s3_path \in S3Paths, today \in Todays :
          s3_store' = StoreUploads(s3_store,
                                   upload_data_s3(bq_table, s3_bucket, s3_path, today).uploads)
    /\ run' = [run EXCEPT !.pc = "idle"]
    /\ UNCHANGED <<bq_table, callvars>>

MainNext ==
    \/ MainStart
    \/ MainBatch
    \/ MainLoadFails
    \/ MainUpload

MainSpec == Init /\ [][MainNext]_vars

Next ==
    \/ Aggregate
    \/ GetUsageAnnotations
    \/ CollapseBuckets
    \/ GetOsArch
    \/ GetDeviceFamilyChipset
    \/ UploadDataS3

Spec == Init /\ [][Next]_vars

(* ---------------- properties of collapse_buckets ---------------- *)
Collapsed == op = "collapse_buckets" /\ ret.err = "none"

\* the positions of aggregated_data that hold the given dimension
DimensionIndexes(dimension) ==
    {i \in 1..Len(args.aggregated_data) : args.aggregated_data[i].k = dimension}

InputCounts(i) == args.aggregated_data[i].v

\* collapsed_groups[dimension] and the dict the first loop built for it
FinalCounts(i) == DictGet(ret.groups, args.aggregated_data[i].k, <<>>).d
FirstCounts(i) == DictGet(ret.groups, args.aggregated_data[i].k, <<>>).first
RatioTable(i) == DictGet(ret.ratios, args.aggregated_data[i].k, <<>>)

RECURSIVE SumNum(_)
SumNum(d) == IF d = <<>> THEN 0 ELSE Head(d).v.num + SumNum(Tail(d))

\* the sum of the counts of the items of a dict that are in the set chosen
RECURSIVE SumIn(_, _)
SumIn(d, chosen) ==
    IF d = <<>> THEN 0
    ELSE (IF Head(d) \in chosen THEN Head(d).v ELSE 0) + SumIn(Tail(d), chosen)

Items(d) == {d[j] : j \in 1..Len(d)}

\* C1: collapse_buckets never drops counts: the counts of the final buckets of
\* every dimension sum to the input counts of the dimension, and the ratios
\* sum to 1 when the input counts sum to sample_count.
C1_CountsPreserved ==
    Collapsed =>
        \A i \in 1..Len(args.aggregated_data) :
            /\ SumValues(FinalCounts(i)) = SumValues(InputCounts(i))
            /\ (args.sample_count > 0 /\ SumValues(InputCounts(i)) = args.sample_count)
                   => SumNum(RatioTable(i)) = args.sample_count

\* the bucket the claim gives the item of a dimension other than os
FoldTarget(dimension, item, count_threshold) ==
    IF (dimension = "resolution" /\ item.k = ZERO_RES) \/ item.v < count_threshold
    THEN OTHER_KEY
    ELSE item.k

\* the buckets of a dimension other than os when folded and kept counts accumulate
AccumulatedBuckets(dimension, counts, count_threshold) ==
    LET targets == {FoldTarget(dimension, counts[j], count_threshold) : j \in 1..Len(counts)}
    IN [b \in targets |->
           SumIn(counts, {item \in Items(counts) :
                             FoldTarget(dimension, item, count_threshold) = b})]

\* C2: in a dimension other than os a value below the threshold is folded into
\* "Other", a value at or above it is kept, and a kept key equal to a folded
\* bucket accumulates with it.
C2_FoldOrKeepAccumulating ==
    Collapsed =>
        \A i \in 1..Len(args.aggregated_data) :
            args.aggregated_data[i].k # "os"
                => DictAsMap(FinalCounts(i))
                     = AccumulatedBuckets(args.aggregated_data[i].k, InputCounts(i),
                                          args.count_threshold)

\* the orders in which the items of a dict can be iterated
Orders(d) == {[j \in 1..Len(d) |-> d[p[j]]] : p \in Permutations(1..Len(d))}

Outcome(dimension, counts, count_threshold) ==
    LET c == CollapseDimension(dimension, counts, count_threshold)
    IN [err |-> c.err, buckets |-> DictAsMap(c.d)]

\* C3: the final buckets of a dimension do not depend on the order in which
\* its values are iterated.
C3_OrderIndependent ==
    op = "collapse_buckets" =>
        \A i \in 1..Len(args.aggregated_data) :
            \A permuted \in Orders(InputCounts(i)) :
                Outcome(args.aggregated_data[i].k, permuted, args.count_threshold)
                  = Outcome(args.aggregated_data[i].k, InputCounts(i), args.count_threshold)

\* the buckets of test_collapse_buckets for os: {"Windows_NT-10.0": 0.95, "Other": 0.05}
TestOsBuckets == [b \in {W10, OTHER_KEY} |-> IF b = W10 THEN 95 ELSE 5]

\* C4: on the os dimension every final bucket other than "Other" is at or above
\* the threshold: a bucket the first loop left below it (a fresh
\* "<osName>-Other" included) is folded into the global "Other", the others
\* are kept with their count.
C4_OsFinalAtOrAboveThreshold ==
    Collapsed =>
        \A i \in DimensionIndexes("os") :
            LET first == FirstCounts(i)
                final == FinalCounts(i)
                th == args.count_threshold
            IN /\ \A j \in 1..Len(final) :
                      final[j].k # OTHER_KEY => final[j].v >= th
               /\ \A j \in 1..Len(first) :
                      first[j].k # OTHER_KEY =>
                          IF first[j].v < th
                          THEN ~DictHas(final, first[j].k) /\ DictHas(final, OTHER_KEY)
                          ELSE DictGet(final, first[j].k, 0) = first[j].v
               /\ ~DictHas(first, OTHER_KEY) =>
                      DictGet(final, OTHER_KEY, 0)
                        = SumIn(first, {item \in Items(first) : item.v < th})
               /\ (InputCounts(i) = TestAggregated[1].v /\ th = TestThreshold)
                      => DictAsMap(final) = TestOsBuckets

\* C4 witness: a fresh "Windows_NT-Other" bucket is below the threshold after
\* the first loop and ends in the global "Other" next to a kept bucket.
C4_Witness ==
    /\ Collapsed
    /\ \E i \in DimensionIndexes("os") :
          /\ ~DictHas(InputCounts(i), WOTHER)
          /\ DictHas(FirstCounts(i), WOTHER)
          /\ DictGet(FirstCounts(i), WOTHER, 0) < args.count_threshold
          /\ DictKeys(FinalCounts(i)) = {W10, OTHER_KEY}

\* the text before the first "-" of an os value
OsNameOf(key) == SubSeq(key.repr, 1, FirstDash(key.repr) - 1)

OsOtherOf(key) == PyStr(OsNameOf(key) \o <<DASH, "Other">>)

\* the items of an os table that are below the threshold
BelowThreshold(counts, th) == {item \in Items(counts) : item.v < th}

\* the sum of the below-threshold versions of the osName of key
BelowSum(counts, th, key) ==
    SumIn(counts, {item \in BelowThreshold(counts, th) : OsNameOf(item.k) = OsNameOf(key)})

\* every below-threshold os value goes to its "<osName>-Other", none to "Other"
FoldedPerOsName(i) ==
    /\ \A item \in BelowThreshold(InputCounts(i), args.count_threshold) :
          DictHas(FirstCounts(i), OsOtherOf(item.k))
    /\ DictHas(FirstCounts(i), OTHER_KEY) =>
          \E item \in Items(InputCounts(i)) :
              item.k = OTHER_KEY /\ item.v >= args.count_threshold

\* C5 as stated: on the os dimension a below-threshold value is folded into
\* "<osName>-Other", and when the below-threshold versions of an osName sum to
\* at least the threshold the output holds "<osName>-Other" with that sum.
C5_OsOtherHoldsSum ==
    Collapsed =>
        \A i \in DimensionIndexes("os") :
            /\ FoldedPerOsName(i)
            /\ \A item \in BelowThreshold(InputCounts(i), args.count_threshold) :
                  BelowSum(InputCounts(i), args.count_threshold, item.k) >= args.count_threshold
                      => DictGet(FinalCounts(i), OsOtherOf(item.k), 0)
                           = BelowSum(InputCounts(i), args.count_threshold, item.k)

\* C5 amended: the same, for the osNames whose "<osName>-Other" is not itself a
\* value of the table at or above the threshold.
C5_OsOtherHoldsSumUnlessKept ==
    Collapsed =>
        \A i \in DimensionIndexes("os") :
            /\ FoldedPerOsName(i)
            /\ \A item \in BelowThreshold(InputCounts(i), args.count_threshold) :
                  (/\ BelowSum(InputCounts(i), args.count_threshold, item.k)
                        >= args.count_threshold
                   /\ ~\E kept \in Items(InputCounts(i)) :
                          kept.k = OsOtherOf(item.k) /\ kept.v >= args.count_threshold)
                      => DictGet(FinalCounts(i), OsOtherOf(item.k), 0)
                           = BelowSum(InputCounts(i), args.count_threshold, item.k)

\* C5 witness: two below-threshold versions of Windows_NT and a version
\* "5-4" of Linux are folded; "Windows_NT-Other" holds the sum of the two.
C5_Witness ==
    /\ Collapsed
    /\ \E i \in DimensionIndexes("os") :
          /\ DictKeys(InputCounts(i)) = {W10, W62, LINUX54}
          /\ \A item \in Items(InputCounts(i)) : item.v < args.count_threshold
          /\ DictHas(FirstCounts(i), PyStr(<<"Linux", DASH, "Other">>))
          /\ DictGet(FinalCounts(i), WOTHER, 0)
               = DictGet(InputCounts(i), W10, 0) + DictGet(InputCounts(i), W62, 0)

\* C6: on the resolution dimension "0x0" is folded into "Other" whatever its
\* count and is never a bucket of the output.
C6_ZeroResolutionFolded ==
    Collapsed =>
        \A i \in DimensionIndexes("resolution") :
            /\ ~DictHas(FinalCounts(i), ZERO_RES)
            /\ ~DictHas(RatioTable(i), str(ZERO_RES))
            /\ DictHas(InputCounts(i), ZERO_RES) =>
                  /\ DictHas(FinalCounts(i), OTHER_KEY)
                  /\ ~DictHas(InputCounts(i), OTHER_KEY) =>
                        DictGet(FinalCounts(i), OTHER_KEY, 0)
                          = SumIn(InputCounts(i),
                                  {item \in Items(InputCounts(i)) :
                                      item.k = ZERO_RES \/ item.v < args.count_threshold})

\* C6 witness: a "0x0" entry at or above a positive threshold ends in "Other".
C6_Witness ==
    /\ Collapsed
    /\ \E i \in DimensionIndexes("resolution") :
          /\ DictHas(InputCounts(i), ZERO_RES)
          /\ args.count_threshold > 0
          /\ DictGet(InputCounts(i), ZERO_RES, 0) >= args.count_threshold
          /\ DictGet(FinalCounts(i), OTHER_KEY, 0) >= DictGet(InputCounts(i), ZERO_RES, 0)

(* ---------------- properties of the decoder helpers ---------------- *)
\* C7: get_device_family_chipset returns "Other" for a vendor id that is not in
\* device_map and for a device id that is not under a known vendor, and
\* "<family>-<chipset>" when both are known.
C7_ChipsetOrOther ==
    op = "get_device_family_chipset" =>
        IF args.vendor_id \notin DOMAIN args.device_map
        THEN ret = <<"Other">>
        ELSE IF args.device_id \notin DOMAIN args.device_map[args.vendor_id]
        THEN ret = <<"Other">>
        ELSE ret = args.device_map[args.vendor_id][args.device_id][1] \o <<DASH>>
                     \o args.device_map[args.vendor_id][args.device_id][2]

\* C8: get_os_arch returns "x86-64" for an "x86-64" browser, else "x86-64" on
\* "Windows_NT" under WOW64, else "x86".
C8_OsArch ==
    op = "get_os_arch" =>
        ret = IF args.browser_arch = <<"x86", "-", "64">> THEN <<"x86", "-", "64">>
              ELSE IF args.os_name = <<"Windows_NT">> /\ args.is_wow64
              THEN <<"x86", "-", "64">>
              ELSE <<"x86">>

\* C8 witness: get_os_arch("x86", "Windows_NT", True) has returned "x86-64".
C8_Witness ==
    /\ op = "get_os_arch"
    /\ args.browser_arch = <<"x86">>
    /\ args.os_name = <<"Windows_NT">>
    /\ args.is_wow64
    /\ ret = <<"x86", "-", "64">>

(* ---------------- properties of the flattener ---------------- *)
Uploaded == op = "upload_data_s3" /\ ret.err = "none"

\* the prefix table as the claim lists it
ClaimedPrefix ==
    [dimension \in {"os", "browser_arch", "cpu_cores", "cpu_vendor", "cpu_speed",
                    "gfx0_vendor_name", "gfx0_model", "resolution", "memory_gb", "os_arch",
                    "has_flash"} |->
        CASE dimension = "os" -> "osName_"
          [] dimension = "browser_arch" -> "browserArch_"
          [] dimension = "cpu_cores" -> "cpuCores_"
          [] dimension = "cpu_vendor" -> "cpuVendor_"
          [] dimension = "cpu_speed" -> "cpuSpeed_"
          [] dimension = "gfx0_vendor_name" -> "gpuVendor_"
          [] dimension = "gfx0_model" -> "gpuModel_"
          [] dimension = "resolution" -> "resolution_"
          [] dimension = "memory_gb" -> "ram_"
          [] dimension = "os_arch" -> "osArch_"
          [] dimension = "has_flash" -> "hasFlash_"]

\* the same table with the browser architecture under the name the rows give it
StoredPrefix ==
    [dimension \in (DOMAIN ClaimedPrefix \ {"browser_arch"}) \cup {"arch"} |->
        IF dimension = "arch" THEN "browserArch_" ELSE ClaimedPrefix[dimension]]

\* the flat record a prefix table gives a stored row: "<prefix><key>" -> ratio
\* for every pair of every dimension of the table the row holds, and the date
FlatRecordOf(row, prefixes) ==
    LET dims == DOMAIN prefixes \cap DOMAIN row
        pairs == UNION {{<<dimension, j>> : j \in 1..Len(row[dimension])} : dimension \in dims}
        flat == {<<prefixes[pr[1]]>> \o row[pr[1]][pr[2]].key : pr \in pairs}
    IN [key \in flat \cup {<<"date">>} |->
           IF key = <<"date">> THEN row.date_from
           ELSE LET pr == CHOOSE q \in pairs :
                             <<prefixes[q[1]]>> \o row[q[1]][q[2]].key = key
                IN row[pr[1]][pr[2]].value]

\* <<year, month, day>> of a yyyy-MM-dd string
ParseDate(iso) ==
    LET N(c) == CharOrd(c) - 2
    IN <<1000 * N(iso[1]) + 100 * N(iso[2]) + 10 * N(iso[3]) + N(iso[4]),
         10 * N(iso[6]) + N(iso[7]), 10 * N(iso[9]) + N(iso[10])>>

\* a flat record with its date read back as a date
WithParsedDate(flattened) ==
    [key \in DictKeys(flattened) |->
        IF key = <<"date">> THEN ParseDate(DictGet(flattened, key, <<>>))
        ELSE DictGet(flattened, key, <<>>)]

\* C9 as stated: the flat record of a stored row holds "<prefix><key>" -> ratio
\* for every pair of every dimension of the claim's prefix table, and the date.
C9_FlatRecordClaimedPrefixes ==
    Uploaded =>
        \A i \in 1..Len(args.hardware_aggregates_df) :
            WithParsedDate(ret.flattened_list[i])
                 = FlatRecordOf(args.hardware_aggregates_df[i], ClaimedPrefix)

\* C9 amended: the same with the browser architecture dimension named arch
\* (arch -> browserArch_), as the rows and keys_translation name it.
C9_FlatRecordStoredPrefixes ==
    Uploaded =>
        \A i \in 1..Len(args.hardware_aggregates_df) :
            WithParsedDate(ret.flattened_list[i])
                 = FlatRecordOf(args.hardware_aggregates_df[i], StoredPrefix)

\* C9 witness: a row with all eleven dimensions filled has been flattened into
\* a record that holds osName_Windows_NT-10.0 and browserArch_x86-64.
C9_Witness ==
    /\ Uploaded
    /\ \E i \in 1..Len(args.hardware_aggregates_df) :
          /\ \A j \in 1..Len(map_fields) : args.hardware_aggregates_df[i][map_fields[j]] # <<>>
          /\ DictHas(ret.flattened_list[i], <<"osName_", "Windows_NT", "-", "10.0">>)
          /\ DictHas(ret.flattened_list[i], <<"browserArch_", "x86", "-", "64">>)
          /\ Len(ret.flattened_list[i]) = 18

\* d1 >= d2 for dates <<year, month, day>>
DateGeq(d1, d2) ==
    \/ d1[1] > d2[1]
    \/ d1[1] = d2[1] /\ d1[2] > d2[2]
    \/ d1[1] = d2[1] /\ d1[2] = d2[2] /\ d1[3] >= d2[3]

DateOfFlat(flattened) == ParseDate(DictGet(flattened, <<"date">>, <<>>))

SortedByDateDescending(list) ==
    \A i, j \in 1..Len(list) : i < j => DateGeq(DateOfFlat(list[i]), DateOfFlat(list[j]))

\* C10 as stated: the list flatten_aggregates returns is sorted by date descending.
C10_FlattenAggregatesSorted ==
    Uploaded => SortedByDateDescending(ret.flattened_list)

\* C10 amended: flatten_aggregates returns the records in the order given;
\* the list upload_data_s3 publishes, sorted(flatten_aggregates(...)), holds the
\* same records sorted by date descending, whatever the order of the rows.
C10_PublishedSorted ==
    Uploaded =>
        /\ SortedByDateDescending(ret.aggregates_flattened)
        /\ \E p \in Permutations(1..Len(ret.flattened_list)) :
              ret.aggregates_flattened
                = [i \in 1..Len(ret.flattened_list) |-> ret.flattened_list[p[i]]]
        /\ \A i \in 1..Len(ret.flattened_list) :
              DateOfFlat(ret.flattened_list[i]) = args.hardware_aggregates_df[i].date_from
        /\ \A u \in 1..Len(ret.uploads) : ret.uploads[u].body = ret.aggregates_flattened

\* C10 witness: rows given in ascending date order (February before October)
\* are published in descending order.
C10_Witness ==
    /\ Uploaded
    /\ Len(args.hardware_aggregates_df) >= 2
    /\ args.hardware_aggregates_df[1].date_from = <<2020, 2, 10>>
    /\ args.hardware_aggregates_df[2].date_from = <<2020, 10, 5>>
    /\ DateOfFlat(ret.aggregates_flattened[1]) = <<2020, 10, 5>>
    /\ ~SortedByDateDescending(ret.flattened_list)

(* ---------------- properties of the publish step ---------------- *)
\* C11: a publish step run with dryrun set writes nothing to object storage
\* (no client, no upload) while the rest of the step still runs; without
\* dryrun the client is created once and the archive and the latest copy are
\* written.
C11_DryrunSkipsWrites ==
    op = "upload_data_s3" =>
        IF args.dryrun = "True"
        THEN /\ ret.clients = 0
             /\ ret.uploads = <<>>
             /\ ret.err = "none"
             /\ Len(ret.aggregates_flattened) = Len(args.hardware_aggregates_df)
             /\ ret.output_file = ret.aggregates_flattened
        ELSE /\ ret.err = "none"
             /\ ret.clients = 1
             /\ Len(ret.uploads) = 2
             /\ ret.uploads[1].key # ret.uploads[2].key
             /\ \A u \in 1..2 : ret.uploads[u].body = ret.aggregates_flattened

(* ---------------- errors of collapse_buckets ---------------- *)
\* C13: collapse_buckets called with sample_count <= 0 ends in an error for
\* any tables, tables whose dimensions are all empty included, and returns no
\* ratio table.
C13_NonPositiveSampleCountRejected ==
    (op = "collapse_buckets" /\ args.sample_count <= 0) =>
        /\ ret.err # "none"
        /\ ret.ratios = <<>>

\* C18: collapse_buckets ends without an error for every os table with
\* sample_count > 0, whatever the key strings: a value below the threshold
\* without a "-" is folded into a bucket.
C18_OsCollapseNeverRaises ==
    (/\ op = "collapse_buckets"
     /\ args.sample_count > 0
     /\ \A i \in 1..Len(args.aggregated_data) : args.aggregated_data[i].k = "os")
        => /\ ret.err = "none"
           /\ \A i \in 1..Len(args.aggregated_data) :
                 InputCounts(i) # <<>> => FinalCounts(i) # <<>>

(* ---------------- properties of get_usage_annotations ---------------- *)
\* C15: every country of the country list is a key of the result, with the
\* default annotations, in order, after the annotations the file has for it
\* (none for a country the file does not have).
C15_DefaultsAppended ==
    op = "get_usage_annotations" =>
        /\ \A i \in 1..Len(args.country_list) :
              LET country == args.country_list[i]
              IN /\ country \in DOMAIN ret
                 /\ ret[country] = DictGet(args.file, country, <<>>) \o args.defaults
        /\ \A country \in DOMAIN ret :
              (\A i \in 1..Len(args.country_list) : args.country_list[i] # country)
                  => /\ DictHas(args.file, country)
                     /\ ret[country] = DictGet(args.file, country, <<>>)

\* C15 witness: test_default_annotations: Brazil has one annotation in the
\* file, Canada has none; both end with the default after their own.
C15_Witness ==
    /\ op = "get_usage_annotations"
    /\ args.country_list = <<"Brazil", "Canada">>
    /\ args.defaults = <<"abc">>
    /\ DictAsMap(args.file) = [c \in {"Brazil"} |-> <<"123">>]
    /\ ret = [c \in {"Brazil", "Canada"} |-> IF c = "Brazil" THEN <<"123", "abc">> ELSE <<"abc">>]

(* ---------------- properties of to_dict, add_counts, combine ---------------- *)
\* the eleven dimensions to_dict gives a row
AggregateDimensions ==
    {"os", "arch", "cpu_cores", "cpu_vendor", "cpu_speed", "resolution", "memory_gb",
     "has_flash", "os_arch", "gfx0_vendor_name", "gfx0_model"}

\* hardware_by_dimensions_df.count(), line 459
SampleCountOf(df) == Len(df)

\* C14: the CountTable aggregate builds for each of the eleven dimensions sums
\* to the sample_count main passes to collapse_buckets (the number of rows of
\* the dataframe), however the rows lie in partitions; a dataframe with rows
\* gives exactly the eleven tables.
C14_TablesSumToSampleCount ==
    op = "aggregate" =>
        /\ \A dimension \in AggregateDimensions :
              SumValues(DictGet(ret, dimension, <<>>))
                  = SampleCountOf(args.hardware_by_dimensions_df)
        /\ args.hardware_by_dimensions_df # <<>> =>
              /\ DictKeys(ret) = AggregateDimensions
              /\ Len(ret) = Cardinality(AggregateDimensions)

\* C14 witness: two rows in two partitions that share their os and differ in
\* their cpu_speed: one os value counted twice, two cpu_speed values counted once.
C14_Witness ==
    /\ op = "aggregate"
    /\ Len(args.hardware_by_dimensions_df) = 2
    /\ args.split = 1
    /\ DictGet(ret, "os", <<>>) = <<Item(PyStr(<<"Windows_NT", DASH, "10.0">>), 2)>>
    /\ Len(DictGet(ret, "cpu_speed", <<>>)) = 2

\* the architecture the claim gives a row: from the OS name alone
ClaimedOsArch(row) ==
    get_os_arch(row.browser_arch, SubSeq(row.os, 1, FirstDash(row.os) - 1), row.is_wow64)

\* C17: the os_arch table counts every row under the architecture computed
\* from its browser_arch, the name part of its os and is_wow64, and rows of
\* the same architecture are summed.
C17_OsArchFromOsName ==
    op = "aggregate" =>
        \A os_arch \in {X86, X86_64} :
            DictGet(DictGet(ret, "os_arch", <<>>), PyStr(os_arch), 0)
                = Cardinality({i \in 1..Len(args.hardware_by_dimensions_df) :
                                 ClaimedOsArch(args.hardware_by_dimensions_df[i]) = os_arch})

(* ---------------- properties of main ---------------- *)
\* a stored row without any entry: the report of a window without data
EmptyReport(row) == \A i \in 1..Len(map_fields) : row[map_fields[i]] = <<>>

\* the files the bucket holds
Published == {s3_store[i].v : i \in 1..Len(s3_store)}

\* C12: main does not go on after a window whose sample_count is zero: the
\* loop and the upload are not reached with such a sample_count, no row of the
\* table is the report of a window without data, and no published file has a
\* record of such a window.
C12_MissingDataAborts ==
    /\ run.pc \in {"batch", "upload"} => run.sample_count # <<0>>
    /\ \A i \in 1..Len(bq_table) : ~EmptyReport(bq_table[i])
    /\ \A body \in Published : \A i \in 1..Len(body) : DictKeys(body[i]) # {<<"date">>}

\* C16: the table holds at most one row per date_from, and every published
\* file at most one record per date.
C16_OneRowPerDateFrom ==
    /\ \A i, j \in 1..Len(bq_table) :
          bq_table[i].date_from = bq_table[j].date_from => i = j
    /\ \A body \in Published :
          \A i, j \in 1..Len(body) :
              DictGet(body[i], <<"date">>, <<>>) = DictGet(body[j], <<"date">>, <<>>) => i = j

====
